---- MODULE Spec2Model ----
(***************************************************************************)
(* Model of the content aggregation pipeline of utils/data (the posts /    *)
(* collections loader).  The module evaluates top to bottom: author        *)
(* enrichment (fullUnicorns), getCollections(), getPosts(), then the       *)
(* cross-link pass that attaches posts to collections.                     *)
(*                                                                         *)
(* Text is modelled as a sequence of one-character strings so that the     *)
(* regular expression of normalizeUsername can be computed.  An optional   *)
(* value is <<>> when absent and <<v>> when present.                       *)
(* getImageSize, the markdown chain and the reference JSON files are       *)
(* external collaborators: images are assumed measurable.                  *)
(***************************************************************************)
EXTENDS Integers, Sequences, FiniteSets, TLC

VARIABLES
    pc,                 \* position in the module's top-level evaluation
    unicornsRaw,        \* content/data/unicorns.json (input)
    collectionsDir,     \* content/collections, in readdir order (input)
    collectionMapping,  \* content/data/collection-mapping (input)
    postsDir,           \* content/blog, in readdir order (input)
    fullUnicorns,       \* enriched authors
    collections,        \* the module's `collections` binding
    posts,              \* the module's `posts` binding
    log                 \* console.warn / console.error lines, in order

vars == <<pc, unicornsRaw, collectionsDir, collectionMapping, postsDir,
          fullUnicorns, collections, posts, log>>

inputs == <<unicornsRaw, collectionsDir, collectionMapping, postsDir>>

----------------------------------------------------------------------------
(* Bounds of the model *)

MaxLen == 4          \* longest enumerated social handle
MaxFiles == 3        \* most files in an enumerated directory
MaxDate == 3         \* publish dates are 1..MaxDate
MaxSortLen == 5      \* most records in an enumerated list to sort
MaxLinkPosts == 3    \* most posts in the cross-link inputs
MaxBannerPosts == 10 \* most posts in the banner inputs

----------------------------------------------------------------------------
(* Optional values and small helpers *)

None == <<>>
Some(v) == <<v>>

Range(s) == {s[i] : i \in 1..Len(s)}

RECURSIVE Flatten(_)
Flatten(ss) == IF ss = <<>> THEN <<>> ELSE Head(ss) \o Flatten(Tail(ss))

SeqsUpTo(S, n) == UNION {[1..k -> S] : k \in 0..n}

Max(S) == CHOOSE m \in S : \A k \in S : k <= m

----------------------------------------------------------------------------
(* Author enrichment: social handles *)

Whitespace == {" "}
LineTerminators == {"\n"}
Separators == {"/", "@"}

RECURSIVE TrimStart(_)
TrimStart(s) ==
    IF s # <<>> /\ Head(s) \in Whitespace \cup LineTerminators
    THEN TrimStart(Tail(s)) ELSE s

RECURSIVE TrimEnd(_)
TrimEnd(s) ==
    IF s # <<>> /\ s[Len(s)] \in Whitespace \cup LineTerminators
    THEN TrimEnd(SubSeq(s, 1, Len(s) - 1)) ELSE s

Trim(s) == TrimEnd(TrimStart(s))

\* s.replace(/^.*[/@](?!$)/, ""): the greedy `.*` runs from the start of the
\* text over characters that are not line terminators; the match ends at the
\* last separator that is not the last character of the text.
MatchEnds(s) ==
    {i \in 1..(Len(s) - 1) :
        /\ s[i] \in Separators
        /\ \A k \in 1..(i - 1) : s[k] \notin LineTerminators}

StripPrefix(s) ==
    IF MatchEnds(s) = {} THEN s ELSE SubSeq(s, Max(MatchEnds(s)) + 1, Len(s))

normalizeUsername(username) ==
    IF username = None THEN None ELSE Some(StripPrefix(Trim(username[1])))

YouTubeBase ==
    <<"h","t","t","p","s",":","/","/","w","w","w",".","y","o","u","t","u",
      "b","e",".","c","o","m","/">>
AtForm == YouTubeBase \o <<"@">>
ChannelForm == YouTubeBase \o <<"c","h","a","n","n","e","l","/">>

Truthy(opt) == opt # None /\ opt[1] # <<>>

\* A buggy variant: the raw input is appended instead of the normalized one.
youtubeRaw(youtube) ==
    IF Truthy(youtube)
    THEN IF "@" \in Range(youtube[1])
         THEN Some(AtForm \o youtube[1])
         ELSE Some(ChannelForm \o youtube[1])
    ELSE youtube

youtubeUrl(youtube) ==
    IF Truthy(youtube)
    THEN LET username == normalizeUsername(youtube)[1]
         IN IF "@" \in Range(youtube[1])
            THEN Some(AtForm \o username)
            ELSE Some(ChannelForm \o username)
    ELSE youtube

----------------------------------------------------------------------------
(* Author enrichment: mastodon.  The raw text is held as the pieces the    *)
(* URL parser reads from it; a text with no scheme is not an absolute URL. *)

Lower(s) ==
    CASE s = "HTTPS" -> "https"
      [] s = "Mastodon.Social" -> "mastodon.social"
      [] OTHER -> s

RawText(m) ==
    IF m.scheme = "" THEN m.host \o m.path
    ELSE m.scheme \o "://" \o m.host \o m.path

URLParses(m) == m.scheme # ""

\* new URL(text).toString(): scheme and host lower-cased, an empty path
\* becomes "/".
URLToString(m) ==
    Lower(m.scheme) \o "://" \o Lower(m.host)
        \o (IF m.path = "" THEN "/" ELSE m.path)

\* A buggy variant: the catch block logs and swallows the error.
MastodonSwallowed(unicorn) == FALSE

\* if (newUnicorn.socials.mastodon): neither absent nor the empty text
MastodonGiven(mastodon) == mastodon # None /\ RawText(mastodon[1]) # ""

\* The try block throws (and the catch rethrows) for a non-empty text that
\* does not parse.
MastodonThrows(unicorn) ==
    /\ MastodonGiven(unicorn.socials.mastodon)
    /\ ~URLParses(unicorn.socials.mastodon[1])

mastodonUrl(mastodon) ==
    IF ~MastodonGiven(mastodon) THEN mastodon
    ELSE IF URLParses(mastodon[1]) THEN Some(URLToString(mastodon[1]))
    ELSE Some(RawText(mastodon[1]))

\* twitter, gitlab, linkedIn, twitch, dribbble, threads and cohost are
\* normalized exactly as github is.
EnrichUnicorn(unicorn) ==
    [id |-> unicorn.id,
     socials |->
        [github |-> normalizeUsername(unicorn.socials.github),
         mastodon |-> mastodonUrl(unicorn.socials.mastodon),
         youtube |-> youtubeUrl(unicorn.socials.youtube)]]

----------------------------------------------------------------------------
(* Directory scanning.  A file name is the sequence of its dot-separated   *)
(* segments: "index.es.md" is <<"index", "es", "md">>.                     *)

JunkNames == {<<"", "DS_Store">>, <<"Thumbs", "db">>}
JunkEntries == {".DS_Store", "Thumbs.db"}

\* isNotJunk on a file name (segments) and on a directory entry (text)
isNotJunk(name) == name \notin JunkNames
isNotJunkEntry(entry) == entry \notin JunkEntries

\* name.startsWith("index.") && name.endsWith(".md")
IsIndexFile(name) ==
    /\ Len(name) >= 2
    /\ name[1] = "index"
    /\ name[Len(name)] = "md"

\* name.split(".").at(-2), with "index" mapped to "en"
LocaleOf(name) ==
    LET lang == name[Len(name) - 1]
    IN IF lang = "index" THEN "en" ELSE lang

\* A buggy variant: the last record of that slug instead of the first.
FindLast(list, slug) ==
    LET hits == {i \in 1..Len(list) : list[i].slug = slug}
    IN IF hits = {} THEN None
       ELSE Some(list[CHOOSE i \in hits : \A k \in hits : i >= k])

\* list.find((c) => c.slug === slug)
Find(list, slug) ==
    LET hits == {i \in 1..Len(list) : list[i].slug = slug}
    IN IF hits = {} THEN None
       ELSE Some(list[CHOOSE i \in hits : \A k \in hits : i <= k])

----------------------------------------------------------------------------
(* Array.prototype.sort as the build's runtime (Node, V8) computes it for  *)
(* arrays shorter than 64 elements: the leading run is found (and reversed *)
(* when strictly descending under the comparator), then the rest is        *)
(* inserted by binary insertion.  Indices are 1-based here.                *)

\* A buggy variant of the comparator: ascending dates.
CompareAscending(record1, record2) ==
    IF record1.published < record2.published THEN -1 ELSE 1

\* A buggy variant of the comparator: equal dates also report "first".
CompareNonStrict(record1, record2) ==
    IF record1.published >= record2.published THEN -1 ELSE 1

\* (post1, post2) => date1 > date2 ? -1 : 1
ComparePosts(post1, post2) ==
    IF post1.published > post2.published THEN -1 ELSE 1

\* (collection1, collection2) => date1 > date2 ? -1 : 1
CompareCollections(collection1, collection2) ==
    IF collection1.published > collection2.published THEN -1 ELSE 1

\* The comparator handed to sort: "posts" or "collections".
Call(comparefn, a, b) ==
    IF comparefn = "posts" THEN ComparePosts(a, b) ELSE CompareCollections(a, b)

Reverse(s) == [i \in 1..Len(s) |-> s[Len(s) + 1 - i]]

RECURSIVE RunEnd(_, _, _, _)
\* Last index of the run that starts at 1, given that idx - 1 is in it.
RunEnd(comparefn, arr, idx, isDescending) ==
    IF idx > Len(arr) THEN idx - 1
    ELSE LET order == Call(comparefn, arr[idx], arr[idx - 1])
         IN IF (isDescending /\ order >= 0) \/ (~isDescending /\ order < 0)
            THEN idx - 1
            ELSE RunEnd(comparefn, arr, idx + 1, isDescending)

CountAndMakeRun(comparefn, arr) ==
    LET isDescending == Call(comparefn, arr[2], arr[1]) < 0
        runLength == RunEnd(comparefn, arr, 3, isDescending)
    IN [length |-> runLength,
        array |-> IF isDescending
                  THEN Reverse(SubSeq(arr, 1, runLength))
                           \o SubSeq(arr, runLength + 1, Len(arr))
                  ELSE arr]

RECURSIVE InsertionPoint(_, _, _, _, _)
InsertionPoint(comparefn, arr, pivot, left, right) ==
    IF left >= right THEN left
    ELSE LET mid == left + ((right - left) \div 2)
         IN IF Call(comparefn, pivot, arr[mid]) < 0
            THEN InsertionPoint(comparefn, arr, pivot, left, mid)
            ELSE InsertionPoint(comparefn, arr, pivot, mid + 1, right)

RECURSIVE BinaryInsertionSort(_, _, _)
BinaryInsertionSort(comparefn, arr, start) ==
    IF start > Len(arr) THEN arr
    ELSE LET pivot == arr[start]
             left == InsertionPoint(comparefn, arr, pivot, 1, start)
             moved == SubSeq(arr, 1, left - 1) \o <<pivot>>
                          \o SubSeq(arr, left, start - 1)
                          \o SubSeq(arr, start + 1, Len(arr))
         IN BinaryInsertionSort(comparefn, moved, start + 1)

ArraySort(comparefn, arr) ==
    IF Len(arr) < 2 THEN arr
    ELSE LET run == CountAndMakeRun(comparefn, arr)
         IN BinaryInsertionSort(comparefn, run.array, run.length + 1)

----------------------------------------------------------------------------
(* getCollections.  A directory is [slug, files]; a file is [name, data],  *)
(* data being its frontmatter.  coverImgMeta and authorsMeta are left out. *)

CollectionFiles(dir) ==
    SelectSeq(SelectSeq(dir.files, LAMBDA f : isNotJunk(f.name)),
              LAMBDA f : IsIndexFile(f.name))

CollectionLocales(files) == [i \in 1..Len(files) |-> LocaleOf(files[i].name)]

CollectionRecords(dir) ==
    LET files == CollectionFiles(dir)
        locales == CollectionLocales(files)
    IN [i \in 1..Len(files) |->
            [title |-> files[i].data.title,
             published |-> files[i].data.published,
             slug |-> dir.slug,
             locales |-> locales,
             locale |-> locales[i],
             posts |-> None]]

collectionMappingFilled ==
    [i \in 1..Len(collectionMapping) |->
        [title |-> collectionMapping[i].title,
         published |-> collectionMapping[i].published,
         slug |-> collectionMapping[i].slug,
         locales |-> <<"en">>,
         locale |-> "en",
         posts |-> None]]

getCollections ==
    LET slugs == SelectSeq(collectionsDir, LAMBDA d : isNotJunkEntry(d.slug))
        scanned == Flatten([d \in 1..Len(slugs) |-> CollectionRecords(slugs[d])])
        allCollections == scanned \o collectionMappingFilled
    IN ArraySort("collections", allCollections)

----------------------------------------------------------------------------
(* getPosts.  authorsMeta, wordCount, publishedMeta, editedMeta and        *)
(* licenseMeta are left out.                                               *)

TagKeys == {"angular", "react"}

PostFiles(dir) ==
    SelectSeq(SelectSeq(dir.files, LAMBDA f : isNotJunk(f.name)),
              LAMBDA f : IsIndexFile(f.name))

PostLocales(files) == [i \in 1..Len(files) |-> LocaleOf(files[i].name)]

\* A buggy variant: every record takes the first locale of the directory.
PostLocaleFirst(locales, i) == locales[1]

PostLocale(locales, i) == locales[i]

\* A buggy variant: a post with an unknown tag loses all its tags.
frontmatterTagsAllOrNothing(tagList) ==
    IF Range(tagList) \subseteq TagKeys THEN tagList ELSE <<>>

frontmatterTags(tagList) == SelectSeq(tagList, LAMBDA tag : tag \in TagKeys)

TagWarnings(slug, tagList) ==
    LET dropped == SelectSeq(tagList, LAMBDA tag : tag \notin TagKeys)
    IN [k \in 1..Len(dropped) |->
            [level |-> "warn", subject |-> slug, detail |-> dropped[k]]]

\* frontmatter.collection && collections.find((c) => c.slug === ...)
collectionMeta(collection) ==
    IF collection = None THEN None ELSE Find(collections, collection[1])

PostRecords(dir) ==
    LET files == PostFiles(dir)
        locales == PostLocales(files)
    IN [i \in 1..Len(files) |->
            [title |-> files[i].data.title,
             published |-> files[i].data.published,
             collection |-> files[i].data.collection,
             slug |-> dir.slug,
             locales |-> locales,
             locale |-> PostLocale(locales, i),
             tags |-> frontmatterTags(files[i].data.tags),
             collectionMeta |-> collectionMeta(files[i].data.collection),
             socialImg |-> "/generated/" \o dir.slug \o ".twitter-preview.jpg",
             bannerImg |-> None]]

PostWarnings(dir) ==
    LET files == PostFiles(dir)
    IN Flatten([i \in 1..Len(files) |->
                    TagWarnings(dir.slug, files[i].data.tags)])

PageSize == 8
BannerSlots == {0, 4}

\* A buggy variant: one counter shared by every locale.
CounterKeyShared(post) == "all"

\* paginationCount[post.locale]
CounterKey(post) == post.locale

\* paginationCount[key] + 1 || 0: an absent count gives NaN, hence 0
NextCount(paginationCount, key) ==
    LET plusOne == IF key \in DOMAIN paginationCount
                   THEN Some(paginationCount[key] + 1) ELSE None
    IN IF plusOne = None \/ plusOne[1] = 0 THEN 0 ELSE plusOne[1]

RECURSIVE BannerPass(_, _, _)
BannerPass(list, i, paginationCount) ==
    IF i > Len(list) THEN list
    ELSE LET post == list[i]
             key == CounterKey(post)
             count == NextCount(paginationCount, key)
             index == count % PageSize
             counted == [k \in DOMAIN paginationCount \cup {key} |->
                            IF k = key THEN count ELSE paginationCount[k]]
         IN BannerPass(
                IF index \in BannerSlots
                THEN [list EXCEPT ![i].bannerImg =
                        Some("/generated/" \o post.slug \o ".banner.jpg")]
                ELSE list,
                i + 1, counted)

PostSlugs == SelectSeq(postsDir, LAMBDA d : isNotJunkEntry(d.slug))

getPosts ==
    LET scanned == Flatten([d \in 1..Len(PostSlugs) |-> PostRecords(PostSlugs[d])])
        sorted == ArraySort("posts", scanned)
    IN BannerPass(sorted, 1, [k \in {} |-> 0])

getPostsWarnings ==
    Flatten([d \in 1..Len(PostSlugs) |-> PostWarnings(PostSlugs[d])])

----------------------------------------------------------------------------
(* The cross-link pass *)

\* A buggy variant: a collection without posts keeps its posts field absent.
LinkedPostsSparse(collection) ==
    LET matching == SelectSeq(posts, LAMBDA post :
                                  post.collection = Some(collection.slug))
    IN IF matching = <<>> THEN None ELSE Some(matching)

\* posts.filter((post) => post.collection === collection.slug)
LinkedPosts(collection) ==
    Some(SelectSeq(posts, LAMBDA post : post.collection = Some(collection.slug)))

----------------------------------------------------------------------------
(* The module's top-level evaluation, one action per stage *)

\* unicornsRaw.map throws at the first author whose mastodon does not parse:
\* the module's evaluation ends there and nothing is exported.
BuildUnicornsThrow ==
    /\ pc = "unicorns"
    /\ \E i \in 1..Len(unicornsRaw) :
        /\ MastodonThrows(unicornsRaw[i])
        /\ \A k \in 1..(i - 1) : ~MastodonThrows(unicornsRaw[k])
        /\ log' = Append(log, [level |-> "error", subject |-> unicornsRaw[i].id,
                               detail |-> RawText(unicornsRaw[i].socials.mastodon[1])])
    /\ pc' = "aborted"
    /\ UNCHANGED <<inputs, fullUnicorns, collections, posts>>

BuildUnicorns ==
    /\ pc = "unicorns"
    /\ \A i \in 1..Len(unicornsRaw) : ~MastodonThrows(unicornsRaw[i])
    /\ fullUnicorns' = [i \in 1..Len(unicornsRaw) |-> EnrichUnicorn(unicornsRaw[i])]
    /\ pc' = "collections"
    /\ UNCHANGED <<inputs, collections, posts, log>>

GetCollections ==
    /\ pc = "collections"
    /\ collections' = getCollections
    /\ pc' = "posts"
    /\ UNCHANGED <<inputs, fullUnicorns, posts, log>>

GetPosts ==
    /\ pc = "posts"
    /\ posts' = getPosts
    /\ log' = log \o getPostsWarnings
    /\ pc' = "link"
    /\ UNCHANGED <<inputs, fullUnicorns, collections>>

CrossLink ==
    /\ pc = "link"
    /\ collections' = [i \in 1..Len(collections) |->
                          [collections[i] EXCEPT !.posts = LinkedPosts(collections[i])]]
    /\ pc' = "done"
    /\ UNCHANGED <<inputs, fullUnicorns, posts, log>>

Next ==
    \/ BuildUnicornsThrow
    \/ BuildUnicorns
    \/ GetCollections
    \/ GetPosts
    \/ CrossLink

----------------------------------------------------------------------------
(* Inputs.  Every specification runs the same pipeline; each draws the     *)
(* inputs one group of properties needs.                                   *)

Unicorn(id, handle, mastodon) ==
    [id |-> id,
     socials |-> [github |-> handle, youtube |-> handle, mastodon |-> mastodon]]

DefaultUnicorn == Unicorn("crutchcorn", Some(<<"a">>), None)
BadUnicorn ==
    Unicorn("bad", None,
            Some([scheme |-> "", host |-> "mastodon.social", path |-> "/@a"]))

CollectionFile(name, title, published) ==
    [name |-> name, data |-> [title |-> title, published |-> published]]

PostFile(name, title, published, tagList, collection) ==
    [name |-> name,
     data |-> [title |-> title, published |-> published, tags |-> tagList,
               collection |-> collection]]

IndexMd == <<"index", "md">>
IndexEsMd == <<"index", "es", "md">>

DefaultCollectionsDir ==
    <<[slug |-> "c1", files |-> <<CollectionFile(IndexMd, 1, 1)>>]>>
DefaultPostsDir ==
    <<[slug |-> "p1",
       files |-> <<PostFile(IndexMd, 1, 1, <<"angular">>, Some("c1"))>>]>>

Start(u, cd, cm, pd) ==
    /\ pc = "unicorns"
    /\ unicornsRaw = u
    /\ collectionsDir = cd
    /\ collectionMapping = cm
    /\ postsDir = pd
    /\ fullUnicorns = <<>>
    /\ collections = <<>>
    /\ posts = <<>>
    /\ log = <<>>

\* A build whose second author has a mastodon text that does not parse.
AbortCase ==
    Start(<<DefaultUnicorn, BadUnicorn>>, DefaultCollectionsDir, <<>>,
          DefaultPostsDir)

(* Social handles *)

Chars == {"/", "@", "a", " "}

Torvalds == <<"t","o","r","v","a","l","d","s">>
GithubCom == <<"g","i","t","h","u","b",".","c","o","m","/">>
ProfileUrl == <<"h","t","t","p","s",":","/","/">> \o GithubCom \o Torvalds
AtTorvalds == <<"@">> \o Torvalds
TrailingSlash == GithubCom \o Torvalds \o <<"/">>
AtSomeChannel == <<"@","s","o","m","e","c","h","a","n","n","e","l">>
ChannelId == <<"c","h","a","n","n","e","l","/","U","C","1","2","3">>
ExampleHandles ==
    {Torvalds, ProfileUrl, AtTorvalds, TrailingSlash, AtSomeChannel, ChannelId}

Handles == SeqsUpTo(Chars, MaxLen) \cup ExampleHandles

EmptyText == [scheme |-> "", host |-> "", path |-> ""]

MastodonInputs ==
    {None, Some(EmptyText)} \cup
    {Some(m) : m \in [scheme : {"", "https", "HTTPS"},
                      host : {"mastodon.social", "Mastodon.Social"},
                      path : {"", "/@a"}]}

SocialUnicorns ==
    {Unicorn("u", Some(h), None) : h \in Handles}
        \cup {Unicorn("u", None, m) : m \in MastodonInputs}

InitSocial ==
    \E u \in SocialUnicorns :
        \E us \in {<<u>>, <<DefaultUnicorn, u>>, <<u, DefaultUnicorn>>} :
            Start(us, DefaultCollectionsDir, <<>>, DefaultPostsDir)

(* Directory listings *)

FileNames ==
    {IndexMd, IndexEsMd, <<"index", "v2", "es", "md">>, <<"index", "txt">>,
     <<"cover", "md">>, <<"", "DS_Store">>}

NameLists ==
    {names \in SeqsUpTo(FileNames, MaxFiles) :
        \A i, k \in 1..Len(names) : i # k => names[i] # names[k]}

TagLists == {<<"angular">>, <<"bogus", "angular">>, <<"react", "nope", "angular">>}

JunkEntry == [slug |-> ".DS_Store", files |-> <<>>]

\* File i of the listing has title i and is published on day i, so the date
\* sort reverses the scan order.
InitFiles ==
    \/ AbortCase
    \/ \E names \in NameLists :
        Start(<<DefaultUnicorn>>,
              <<JunkEntry,
                [slug |-> "c1",
                 files |-> [i \in 1..Len(names) |->
                               CollectionFile(names[i], i, i)]]>>,
              <<>>, DefaultPostsDir)
    \/ \E names \in NameLists :
        \E tagLists \in [1..Len(names) -> TagLists] :
            Start(<<DefaultUnicorn>>, DefaultCollectionsDir, <<>>,
                  <<JunkEntry,
                    [slug |-> "p1",
                     files |-> [i \in 1..Len(names) |->
                                   PostFile(names[i], i, i, tagLists[i],
                                            None)]]>>)

(* Lists to sort: record i in scan order has title i *)

DateLists == SeqsUpTo(1..MaxDate, MaxSortLen)

InitSort ==
    \/ AbortCase
    \/ \E dates \in DateLists :
        Start(<<DefaultUnicorn>>, DefaultCollectionsDir, <<>>,
              [i \in 1..Len(dates) |->
                  [slug |-> "p" \o ToString(i),
                   files |-> <<PostFile(IndexMd, i, dates[i], <<>>, None)>>]])
    \/ \E dates \in DateLists :
        \E scanned \in 0..Len(dates) :
            Start(<<DefaultUnicorn>>,
                  [i \in 1..scanned |->
                      [slug |-> "c" \o ToString(i),
                       files |-> <<CollectionFile(IndexMd, i, dates[i])>>]],
                  [i \in 1..(Len(dates) - scanned) |->
                      [slug |-> "m" \o ToString(i),
                       title |-> scanned + i,
                       published |-> dates[scanned + i]]],
                  DefaultPostsDir)

(* Posts and collections to link *)

LinkCollectionsDirs ==
    {<<[slug |-> "a",
        files |-> <<CollectionFile(IndexMd, 1, d), CollectionFile(IndexEsMd, 2, 2)>>]>>
        : d \in 1..MaxDate}

LinkMappings ==
    {<<>>,
     <<[slug |-> "b", title |-> 3, published |-> 1]>>,
     <<[slug |-> "a", title |-> 3, published |-> MaxDate]>>}

LinkPostChoices ==
    [name : {IndexMd, IndexEsMd},
     collection : {None, Some("a"), Some("b"), Some("ghost")}]

InitLink ==
    \/ AbortCase
    \/ \E cd \in LinkCollectionsDirs, cm \in LinkMappings :
        \E choices \in SeqsUpTo(LinkPostChoices, MaxLinkPosts) :
            Start(<<DefaultUnicorn>>, cd, cm,
                  [i \in 1..Len(choices) |->
                      [slug |-> "p" \o ToString(i),
                       files |-> <<PostFile(choices[i].name, i, (i % 2) + 1,
                                            <<>>, choices[i].collection)>>]])

(* Posts to paginate *)

DatePatterns == {"same", "ascending", "alternating"}

PatternDate(pattern, i) ==
    CASE pattern = "same" -> 1
      [] pattern = "ascending" -> i
      [] pattern = "alternating" -> (i % 2) + 1

InitBanner ==
    \/ AbortCase
    \/ \E names \in SeqsUpTo({IndexMd, IndexEsMd}, MaxBannerPosts) :
        \E pattern \in DatePatterns :
            Start(<<DefaultUnicorn>>, DefaultCollectionsDir, <<>>,
                  [i \in 1..Len(names) |->
                      [slug |-> "p" \o ToString(i),
                       files |-> <<PostFile(names[i], i, PatternDate(pattern, i),
                                            <<>>, None)>>]])

SpecSocial == InitSocial /\ [][Next]_vars
SpecFiles == InitFiles /\ [][Next]_vars
SpecSort == InitSort /\ [][Next]_vars
SpecLink == InitLink /\ [][Next]_vars
SpecBanner == InitBanner /\ [][Next]_vars

----------------------------------------------------------------------------
(* Properties *)

Enriched == pc \in {"collections", "posts", "link", "done"}
CollectionsBuilt == pc \in {"posts", "link", "done"}
PostsBuilt == pc \in {"link", "done"}

StartsWith(s, prefix) ==
    Len(s) >= Len(prefix) /\ SubSeq(s, 1, Len(prefix)) = prefix

IsBare(h) == Range(h) \cap (Separators \cup Whitespace) = {}

GithubOf(h) ==
    {fullUnicorns[i].socials.github :
        i \in {k \in 1..Len(unicornsRaw) : unicornsRaw[k].socials.github = Some(h)}}

\* C8: normalizeUsername returns an already-bare handle unchanged, and
\* returns "torvalds" for "https://github.com/torvalds", for "@torvalds" and
\* for "github.com/torvalds/".
C8_NormalizeExamples ==
    Enriched =>
        /\ \A h \in Handles : IsBare(h) => GithubOf(h) \subseteq {Some(h)}
        /\ \A h \in {ProfileUrl, AtTorvalds, TrailingSlash} :
            GithubOf(h) \subseteq {Some(Torvalds)}

\* What the code does hold to: every example but the one with the trailing
\* slash, which keeps its slash.
C8_WithoutTrailingSlash ==
    Enriched =>
        /\ \A h \in Handles : IsBare(h) => GithubOf(h) \subseteq {Some(h)}
        /\ \A h \in {ProfileUrl, AtTorvalds} :
            GithubOf(h) \subseteq {Some(Torvalds)}
        /\ GithubOf(TrailingSlash) \subseteq {Some(Torvalds \o <<"/">>)}

\* C9: a non-empty youtube input gives exactly one canonical form: the
\* /@{handle} form when the input contains '@', the /channel/{id} form when
\* it does not; handle/id is the normalized input, with every URL or path
\* prefix stripped.
C9_YoutubeForms ==
    Enriched =>
        \A i \in 1..Len(unicornsRaw) :
            LET y == unicornsRaw[i].socials.youtube
                out == fullUnicorns[i].socials.youtube[1]
                hasAt == "@" \in Range(y[1])
                prefix == IF hasAt THEN AtForm ELSE ChannelForm
                handle == SubSeq(out, Len(prefix) + 1, Len(out))
            IN Truthy(y) =>
                /\ StartsWith(out, AtForm) = hasAt
                /\ StartsWith(out, ChannelForm) = ~hasAt
                /\ Some(handle) = normalizeUsername(y)
                /\ \A k \in 1..(Len(handle) - 1) : handle[k] \notin Separators
                /\ y = Some(AtSomeChannel) => out = AtForm \o Tail(AtSomeChannel)
                /\ y = Some(ChannelId) => out = ChannelForm \o <<"U","C","1","2","3">>

C9_Witness ==
    /\ pc = "done"
    /\ \E i \in 1..Len(unicornsRaw) :
        /\ unicornsRaw[i].socials.youtube = Some(ChannelId)
        /\ fullUnicorns[i].socials.youtube =
               Some(ChannelForm \o <<"U","C","1","2","3">>)

NotAbsoluteUrl(mastodon) ==
    /\ mastodon \notin {None, Some(EmptyText)}
    /\ mastodon[1].scheme = ""

AnyBadMastodon ==
    \E i \in 1..Len(unicornsRaw) : NotAbsoluteUrl(unicornsRaw[i].socials.mastodon)

\* C7: a non-empty mastodon value that is not an absolute URL makes the
\* author enrichment throw and the build abort with no partial output (no
\* aggregator and no cross-linker runs, no list is produced); a value that
\* parses is stored in the URL's canonical form and the build continues.
C7_MastodonFatal ==
    /\ AnyBadMastodon =>
        /\ pc \in {"unicorns", "aborted"}
        /\ pc = "unicorns" => ENABLED BuildUnicornsThrow /\ ~ENABLED BuildUnicorns
        /\ fullUnicorns = <<>> /\ collections = <<>> /\ posts = <<>>
    /\ pc = "aborted" => ~ENABLED Next
    /\ ~AnyBadMastodon =>
        /\ pc # "aborted"
        /\ pc = "unicorns" => ENABLED BuildUnicorns
        /\ Enriched =>
            \A i \in 1..Len(unicornsRaw) :
                LET m == unicornsRaw[i].socials.mastodon
                    stored == fullUnicorns[i].socials.mastodon
                IN /\ m \in {None, Some(EmptyText)} => stored = m
                   /\ m \notin {None, Some(EmptyText)} =>
                        stored = Some(URLToString(m[1]))
                   /\ m = Some([scheme |-> "HTTPS", host |-> "Mastodon.Social",
                                path |-> ""])
                        => stored = Some("https://mastodon.social/")

C7_Witness ==
    /\ pc = "aborted"
    /\ Len(unicornsRaw) = 2
    /\ NotAbsoluteUrl(unicornsRaw[2].socials.mastodon)
    /\ collectionsDir # <<>> /\ postsDir # <<>>
    /\ log # <<>>

----------------------------------------------------------------------------
(* Properties of the directory scan *)

IndexFilesOf(dir) == SelectSeq(dir.files, LAMBDA f : IsIndexFile(f.name))

\* The locale a file name states by itself.
OwnLocale(name) ==
    IF name[Len(name) - 1] = "index" THEN "en" ELSE name[Len(name) - 1]

\* The records of directory dir in list correspond to its index files.
Corresponds(dir, list) ==
    LET files == IndexFilesOf(dir)
        records == {k \in 1..Len(list) : list[k].slug = dir.slug}
    IN /\ Cardinality(records) = Len(files)
       /\ \A k \in records :
            /\ Len(list[k].locales) = Len(files)
            /\ \A i \in 1..Len(files) :
                list[k].locales[i] = OwnLocale(files[i].name)
       /\ \A i \in 1..Len(files) :
            \E k \in records :
                /\ list[k].title = files[i].data.title
                /\ list[k].locale = OwnLocale(files[i].name)
                /\ list[k].locale = list[k].locales[i]

RealDirs(root) == {root[d] : d \in {k \in 1..Len(root) : root[k].slug \notin JunkEntries}}

\* C5: a directory with N index files gives N records; each carries the same
\* list of N locales, and the record of file i has the locale that file's own
\* name states, which is locales[i].
C5_LocaleFileCorrespondence ==
    /\ CollectionsBuilt => \A dir \in RealDirs(collectionsDir) : Corresponds(dir, collections)
    /\ PostsBuilt => \A dir \in RealDirs(postsDir) : Corresponds(dir, posts)

C5_Witness ==
    /\ pc = "done"
    /\ Len(posts) = 2
    /\ posts[1].title = 3 /\ posts[2].title = 1
    /\ posts[1].locale # posts[2].locale
    /\ Len(postsDir[2].files) = 3
    /\ ~IsIndexFile(postsDir[2].files[2].name)

RECURSIVE KnownTags(_)
KnownTags(tagList) ==
    IF tagList = <<>> THEN <<>>
    ELSE IF Head(tagList) \in TagKeys
         THEN <<Head(tagList)>> \o KnownTags(Tail(tagList))
         ELSE KnownTags(Tail(tagList))

RECURSIVE Sum(_, _)
Sum(f, S) ==
    IF S = {} THEN 0
    ELSE LET x == CHOOSE x \in S : TRUE IN f[x] + Sum(f, S \ {x})

PostDirIndexes == {d \in 1..Len(postsDir) : postsDir[d].slug \notin JunkEntries}

\* C4: each post file gives a record whose tags are the frontmatter tags found
\* in the tag map, in frontmatter order; each other tag is dropped with one
\* warning naming the post and the tag; no post is rejected.
C4_TagFiltering ==
    PostsBuilt =>
        /\ Len(posts) =
              Sum([d \in PostDirIndexes |-> Len(IndexFilesOf(postsDir[d]))],
                  PostDirIndexes)
        /\ \A d \in PostDirIndexes :
            \A f \in Range(IndexFilesOf(postsDir[d])) :
                /\ \E k \in 1..Len(posts) :
                    /\ posts[k].slug = postsDir[d].slug
                    /\ posts[k].title = f.data.title
                    /\ posts[k].tags = KnownTags(f.data.tags)
                /\ \A tag \in Range(f.data.tags) \ TagKeys :
                    [level |-> "warn", subject |-> postsDir[d].slug,
                     detail |-> tag] \in Range(log)
        /\ Len(log) =
              Sum([d \in PostDirIndexes |->
                      Sum([i \in 1..Len(IndexFilesOf(postsDir[d])) |->
                              Len(IndexFilesOf(postsDir[d])[i].data.tags)
                                - Len(KnownTags(IndexFilesOf(postsDir[d])[i].data.tags))],
                          1..Len(IndexFilesOf(postsDir[d])))],
                  PostDirIndexes)

C4_Witness ==
    /\ pc = "done"
    /\ Len(posts) = 2
    /\ posts[1].tags = <<"react", "angular">>
    /\ posts[2].tags = <<"angular">>
    /\ Len(log) = 2

----------------------------------------------------------------------------
(* Properties of the date sort *)

Descending(list) ==
    \A i, j \in 1..Len(list) : i < j => list[i].published >= list[j].published

\* C3: the lists getCollections and getPosts return are in descending order
\* of publish date, equal dates included.
C3_SortedDescending ==
    /\ CollectionsBuilt => Descending(collections)
    /\ PostsBuilt => Descending(posts)

C3_Witness ==
    /\ pc = "done"
    /\ Len(posts) = 5
    /\ postsDir[1].files[1].data.published < postsDir[2].files[1].data.published
    /\ postsDir[3].files[1].data.published > postsDir[4].files[1].data.published
    /\ posts[1].published = posts[2].published
    /\ posts[2].published > posts[3].published

\* Records of equal date keep their scan order (record i of the scan has
\* title i).
TiesInScanOrder(list) ==
    \A i, j \in 1..Len(list) :
        i < j /\ list[i].published = list[j].published
            => list[i].title < list[j].title

NeverZero(comparefn, list) ==
    \A a, b \in Range(list) :
        /\ Call(comparefn, a, b) \in {-1, 1}
        /\ Call(comparefn, a, b) = -1 <=> a.published > b.published
        /\ a.published = b.published =>
            Call(comparefn, a, b) = 1 /\ Call(comparefn, b, a) = 1

\* C6: of two records with the same publish date, the one met first in the
\* directory scan comes first in the final list; the comparator returns -1
\* exactly when its first operand is strictly later and 1 otherwise.
C6_TiesKeepScanOrder ==
    /\ CollectionsBuilt =>
        TiesInScanOrder(collections) /\ NeverZero("collections", collections)
    /\ PostsBuilt => TiesInScanOrder(posts) /\ NeverZero("posts", posts)

C6_Witness ==
    /\ pc = "done"
    /\ Len(collections) = 4
    /\ Len(collectionsDir) = 2 /\ Len(collectionMapping) = 2
    /\ collections[1].published > collections[2].published
    /\ collections[2].published = collections[3].published
    /\ collections[3].published = collections[4].published
    /\ collections[1].title = 3
    /\ <<collections[2].title, collections[3].title, collections[4].title>>
           = <<1, 2, 4>>

----------------------------------------------------------------------------
(* Properties of the links between posts and collections *)

RECURSIVE PostsOf(_, _)
\* The posts of list that name the collection slug, first to last.
PostsOf(list, slug) ==
    IF list = <<>> THEN <<>>
    ELSE IF Head(list).collection # None /\ Head(list).collection[1] = slug
         THEN <<Head(list)>> \o PostsOf(Tail(list), slug)
         ELSE PostsOf(Tail(list), slug)

\* C2: after the cross-link pass every collection's posts field is present
\* and is the subsequence, in order, of the posts that name its slug: empty
\* when none does.
C2_CrossLinkExact ==
    pc = "done" =>
        \A i \in 1..Len(collections) :
            /\ collections[i].posts # None
            /\ collections[i].posts[1] = PostsOf(posts, collections[i].slug)

C2_Witness ==
    /\ pc = "done"
    /\ \E i, j \in 1..Len(collections) :
        /\ Len(collections[i].posts[1]) = 3
        /\ collections[i].posts[1][1].title = 1
        /\ collections[i].posts[1][2].title = 3
        /\ collections[j].posts = Some(<<>>)

\* The list getCollections returned: the cross-link pass adds posts only.
Shells == [i \in 1..Len(collections) |-> [collections[i] EXCEPT !.posts = None]]

FirstWithSlug(slug) ==
    CHOOSE i \in 1..Len(Shells) :
        /\ Shells[i].slug = slug
        /\ \A k \in 1..(i - 1) : Shells[k].slug # slug

\* C10: a post has a collectionMeta exactly when its collection field is set
\* and names a record of the list getCollections built; it is then the first
\* record of that slug in the date-sorted list, whatever the post's locale.
C10_CollectionMeta ==
    PostsBuilt =>
        /\ Descending(Shells)
        /\ \A k \in 1..Len(posts) :
            LET post == posts[k]
                named == post.collection # None
                            /\ \E c \in Range(Shells) : c.slug = post.collection[1]
            IN /\ post.collectionMeta # None <=> named
               /\ named =>
                    /\ post.collectionMeta[1] = Shells[FirstWithSlug(post.collection[1])]
                    /\ post.collectionMeta[1].slug = post.collection[1]

C10_Witness ==
    /\ pc = "done"
    /\ \E k \in 1..Len(posts) :
        /\ posts[k].locale = "en"
        /\ posts[k].collectionMeta # None
        /\ posts[k].collectionMeta[1].locale = "es"
        /\ \E c \in Range(Shells) :
            c.slug = posts[k].collection[1] /\ c.locale = "en"

----------------------------------------------------------------------------
(* Properties of the banner pass *)

\* Zero-based rank of posts[i] among the posts of its own locale.
LocaleRank(i) ==
    Cardinality({k \in 1..(i - 1) : posts[k].locale = posts[i].locale})

\* C1: a post has bannerImg = /generated/{slug}.banner.jpg exactly when its
\* rank among the posts of its locale, in the sorted list, is 0 or 4 modulo
\* 8; posts of another locale never advance the count.
C1_BannerByLocaleRank ==
    PostsBuilt =>
        \A i \in 1..Len(posts) :
            posts[i].bannerImg =
                IF LocaleRank(i) % 8 \in {0, 4}
                THEN Some("/generated/" \o posts[i].slug \o ".banner.jpg")
                ELSE None

C1_Witness ==
    /\ pc = "done"
    /\ Len(posts) = 10
    /\ posts[2].locale = "es"
    /\ \A i \in 1..10 : i # 2 => posts[i].locale = "en"
    /\ {i \in 1..10 : posts[i].bannerImg # None} = {1, 2, 6, 10}
    /\ posts[1].slug = "p10"

====
